---------------------------- MODULE Spec2Model ----------------------------
(***************************************************************************)
(* A model of the fetch side of fitter: the HTTP connector                 *)
(* (apiConnector.get), the Playwright connector (getFromPlaywright), the   *)
(* reference registry, ProcessExpression and the array node of the builder *)
(* package.                                                                *)
(***************************************************************************)
EXTENDS Integers, Sequences, FiniteSets, TLC

(***************************************************************************)
(* Bounds of the model.                                                    *)
(***************************************************************************)
\* number of concurrent calls of apiConnector.get
NumHttp == 2
\* the FITTER_HTTP_WORKER environment variable read by init() is 0 (unset, not a
\* number or not positive) or a number up to this one
MaxWorkerEnv == 2
\* capacity of the weighted semaphore limitter.HostLimiter returns for a limited host
HostPoolCap == 1

\* number of concurrent calls of resolve
NumCallers == 3
\* number of concurrent calls of ProcessExpression
NumEval == 2
\* largest number of items of an array
MaxLen == 2
\* largest number of pieces of a template
MaxTpl == 2
\* largest configured timeout of a fetch, in seconds
MaxTimeout == 2
\* number of concurrent calls of getFromPlaywright
NumBrowser == 2
\* capacity of the weighted semaphore limitter.PlaywrightLimiter returns; the
\* model also runs with no limiter (nil)
MaxInstancePool == 1
\* the largest index handed to ProcessExpression
MaxIndex == 1
\* number of concurrent calls of get whose templates may look up a reference
NumNested == 2
\* largest capacity of sem in those runs
MaxPool == 2

(***************************************************************************)
(* Program constants.                                                      *)
(***************************************************************************)
defaultConcurrentWorker == 1000
\* the default timeout of a fetch, in seconds
timeout == 60

HttpIds == 1..NumHttp
BrowserIds == 1..NumBrowser

\* Results of utils.Format(api.url, ...): the empty string, a text url.Parse
\* rejects, and one URL per host.
URLs == {"", ":bad", "http://a/", "http://b/", "http://c/"}
Hosts == {"a", "b", "c"}

\* req.Host of the request http.NewRequest builds from a URL
ReqHost(u) ==
    CASE u = "http://a/" -> "a"
      [] u = "http://b/" -> "b"
      [] u = "http://c/" -> "c"
      [] OTHER -> "none"

\* http.NewRequest fails on a URL url.Parse rejects
NewRequestFails(u) == u = ":bad"

\* limitter.HostLimiter(host): the capacity of the host's semaphore, 0 when the
\* host has no limiter (nil)
HostLimiter(h) == IF h \in {"a", "b"} THEN HostPoolCap ELSE 0

\* init(): the size of the global semaphore sem for a value of FITTER_HTTP_WORKER
DefaultConcurrentRequest(intValue) ==
    IF intValue > 0 THEN intValue ELSE defaultConcurrentWorker

NoRet == [hdr |-> "unset", body |-> "unset", err |-> "unset"]
Ret(h, b, e) == [hdr |-> h, body |-> b, err |-> e]

VARIABLES
    semSize,       \* sem.size: the capacity init() gave the global semaphore
    sem,           \* sem.cur: slots of the global semaphore in use
    hostSem,       \* per host: slots of the host semaphore in use
    pc,            \* per call of get: the position in get
    formattedURL,  \* per call of get: the template-expanded URL
    sent,          \* per call of get: client.Do has put the request on the wire
    deadline,      \* per call of get: has the configured timeout passed since the call
    ret,           \* per call of get: the returned (headers, bytes, error)
    held           \* per call of get: the semaphores it acquired and has not
                   \* released yet

httpVars == <<semSize, sem, hostSem, pc, formattedURL, sent, deadline, ret, held>>

VARIABLES
    instSize,            \* capacity of limitter.PlaywrightLimiter(), 0 when it is nil
    instSem,             \* slots of the browser-instance semaphore in use
    installPlaywrightSem,\* slots of the install lock (capacity 1) in use
    installedPlaywright, \* the atomic flag
    cpc,                 \* per call of getFromPlaywright: the caller's position
    ctxT,                \* per call: the state of the context with timeout
    bdeadline,           \* per call waiting for an instance slot: has the
                         \* configured timeout passed since the call
    bret,                \* per call: the returned (bytes, error)
    upc,                 \* per call: the position of the goroutine
    err,                 \* per call: the variable err of line 46
    innerErr,            \* per call: the variable err declared at line 77
    content,             \* per call: the variable content of line 45
    defers,              \* per call: the deferred calls of the goroutine, last first
    open                 \* per call: the runtime, browser and page not yet closed

browserVars == <<instSize, instSem, installPlaywrightSem, installedPlaywright, cpc,
                 ctxT, bdeadline, bret, upc, err, innerErr, content, defers, open>>

VARIABLES
    refState,      \* per reference name: Unresolved, Resolving or Resolved
    refOutcome,    \* per reference name: the memoized outcome of the resolver
    resolverCalls, \* per reference name: how often the resolver was invoked
    rpc,           \* per caller of resolve: its position
    rname,         \* per caller of resolve: the name it asked for
    observed       \* per caller of resolve: the outcome it was given

registryVars == <<refState, refOutcome, resolverCalls, rpc, rname, observed>>

VARIABLES
    epc,           \* per call of ProcessExpression: its position
    expression,    \* per call: the argument expression
    source,        \* per call: the text handed to expr.Compile
    program,       \* per call: the compiled program
    steps,         \* per call: the calls made so far, in order
    eret,          \* per call: the returned (value, error)
    defEnv,        \* the package variable defEnv, a map
    env,           \* per call: the local env, a map
    result,        \* per call: the argument result
    index          \* per call: the argument index, NilIndex for a nil pointer

envVars == <<defEnv, env, result, index>>
exprVars == <<epc, expression, source, program, steps, eret, envVars>>

VARIABLES
    values,        \* the field values of an arrayField
    isEmpty,       \* the result of IsEmpty() on it, once called
    toJson,        \* the text ToJson() returned, as its tokens; <<>> before the call
    raw            \* the value Raw() returned, once called

arrayVars == <<values, isEmpty, toJson, raw>>

VARIABLES
    tpl,           \* the template of a call of Format, as its pieces in order
    fpos,          \* the piece Format looks at next
    fout           \* the texts Format has written so far

fmtVars == <<tpl, fpos, fout>>

VARIABLES
    cfg,           \* the connector configuration of a call of get: which of its
                   \* texts hold a placeholder
    req            \* the texts the call built its request from

reqVars == <<cfg, req>>

VARIABLES
    tkind,         \* a fetch with a timeout: by get ("http") or getFromPlaywright
    cfgTimeout,    \* cfg.Timeout of the fetch, in seconds
    tdeadline,     \* the duration given to context.WithTimeout, in seconds
    clock,         \* seconds since context.WithTimeout was called
    tpc,           \* where the fetch is: idle, running, returned
    tret           \* what the fetch returned

timedVars == <<tkind, cfgTimeout, tdeadline, clock, tpc, tret>>

VARIABLES
    nsemSize,      \* capacity of sem in the runs with a reference lookup
    nsem,          \* slots of sem acquired and not released
    nref,          \* the reference: unresolved, resolving, resolved
    nlookup,       \* per call of get: the template holding the lookup
    npc,           \* per call of get: its position
    nrpc           \* per call of get: the position of the get its resolver runs

nestVars == <<nsemSize, nsem, nref, nlookup, npc, nrpc>>

auxVars == <<fmtVars, reqVars, timedVars, nestVars>>

nonHttpVars == <<browserVars, registryVars, exprVars, arrayVars, auxVars>>
nonBrowserVars == <<httpVars, registryVars, exprVars, arrayVars, auxVars>>
fetchVars == <<httpVars, browserVars>>

vars == <<httpVars, browserVars, registryVars, exprVars, arrayVars, auxVars>>

(***************************************************************************)
(* apiConnector.get                                                        *)
(***************************************************************************)
HttpInit ==
    /\ semSize \in {DefaultConcurrentRequest(v) : v \in 0..MaxWorkerEnv}
    /\ sem = 0
    /\ hostSem = [h \in Hosts |-> 0]
    /\ pc = [f \in HttpIds |-> "idle"]
    /\ formattedURL = [f \in HttpIds |-> "unset"]
    /\ sent = [f \in HttpIds |-> FALSE]
    /\ deadline = [f \in HttpIds |-> "unset"]
    /\ ret = [f \in HttpIds |-> NoRet]
    /\ held = [f \in HttpIds |-> {}]

\* The return statement reached with the deferred calls registered so far:
\* cancel and hostLimit.Release when the host slot is held, then sem.Release.
Return(f, r, next) ==
    /\ ret' = [ret EXCEPT ![f] = r]
    /\ pc' = [pc EXCEPT ![f] = next]
    /\ deadline' = [deadline EXCEPT ![f] = "stopped"]

\* get without the test of lines 76-78: an empty URL goes on to the pool
Get_Format_NoEmptyCheck(f) ==
    /\ pc[f] = "idle"
    /\ \E u \in URLs : formattedURL' = [formattedURL EXCEPT ![f] = u]
    /\ pc' = [pc EXCEPT ![f] = "acq_sem"]
    /\ deadline' = [deadline EXCEPT ![f] = "pending"]
    /\ UNCHANGED <<semSize, held, sem, hostSem, sent, ret, nonHttpVars>>

\* lines 69-78: Format of body and URL; an empty URL returns errEmpty
Get_Format(f) ==
    /\ pc[f] = "idle"
    /\ \E u \in URLs :
        /\ formattedURL' = [formattedURL EXCEPT ![f] = u]
        /\ IF u = ""
             THEN Return(f, Ret("nil", "nil", "errEmpty"), "done")
             ELSE /\ pc' = [pc EXCEPT ![f] = "acq_sem"]
                  /\ deadline' = [deadline EXCEPT ![f] = "pending"]
                  /\ UNCHANGED ret
    /\ UNCHANGED <<semSize, held, sem, hostSem, sent, nonHttpVars>>

\* sem.Acquire that takes a slot without waiting for a free one
Get_AcquireSem_NoWait(f) ==
    /\ pc[f] = "acq_sem"
    /\ sem' = sem + 1
    /\ pc' = [pc EXCEPT ![f] = "new_request"]
    /\ held' = [held EXCEPT ![f] = @ \cup {"sem"}]
    /\ UNCHANGED <<semSize, hostSem, formattedURL, sent, deadline, ret, nonHttpVars>>

\* lines 80-86: sem.Acquire(ctx, 1) with ctx = context.Background(), which is
\* never done: the call blocks until a slot is free and never returns an error.
Get_AcquireSem(f) ==
    /\ pc[f] = "acq_sem"
    /\ semSize - sem >= 1
    /\ sem' = sem + 1
    /\ pc' = [pc EXCEPT ![f] = "new_request"]
    /\ held' = [held EXCEPT ![f] = @ \cup {"sem"}]
    /\ UNCHANGED <<semSize, hostSem, formattedURL, sent, deadline, ret, nonHttpVars>>

\* lines 88-97: http.NewRequest, then the headers
Get_NewRequest(f) ==
    /\ pc[f] = "new_request"
    /\ IF NewRequestFails(formattedURL[f])
         THEN Return(f, Ret("nil", "nil", "errNewRequest"), "defer_sem")
         ELSE /\ pc' = [pc EXCEPT ![f] = "proxy"]
              /\ UNCHANGED <<ret, deadline>>
    /\ UNCHANGED <<semSize, held, sem, hostSem, formattedURL, sent, nonHttpVars>>

\* get that goes from the proxy to the request without the host limiter
Get_Proxy_NoHostLimit(f) ==
    /\ pc[f] = "proxy"
    /\ pc' = [pc EXCEPT ![f] = "do"]
    /\ UNCHANGED <<semSize, held, sem, hostSem, formattedURL, sent, ret, deadline,
                   nonHttpVars>>

\* lines 99-120: the client and the proxy. When url.Parse of the expanded proxy
\* server fails the code returns err, the error of http.NewRequest, which is nil.
Get_Proxy(f) ==
    /\ pc[f] = "proxy"
    /\ \E proxy \in {"absent", "parsed", "unparsable"} :
        IF proxy = "unparsable"
          THEN Return(f, Ret("nil", "nil", "nil"), "defer_sem")
          ELSE /\ pc' = [pc EXCEPT ![f] = "host_limit"]
               /\ UNCHANGED <<ret, deadline>>
    /\ UNCHANGED <<semSize, held, sem, hostSem, formattedURL, sent, nonHttpVars>>

\* hostLimit.Acquire that takes a slot without waiting for a free one
Get_HostLimit_NoWait(f) ==
    /\ pc[f] = "host_limit"
    /\ LET h == ReqHost(formattedURL[f]) IN
         IF HostLimiter(h) = 0
           THEN UNCHANGED hostSem
           ELSE hostSem' = [hostSem EXCEPT ![h] = @ + 1]
    /\ pc' = [pc EXCEPT ![f] = "do"]
    /\ held' = [held EXCEPT ![f] =
                  IF HostLimiter(ReqHost(formattedURL[f])) = 0 THEN @
                  ELSE @ \cup {"hostLimit"}]
    /\ UNCHANGED <<semSize, sem, formattedURL, sent, deadline, ret, nonHttpVars>>

\* lines 122-129: limitter.HostLimiter(req.Host) and hostLimit.Acquire(ctx, 1),
\* again with the background context
Get_HostLimit(f) ==
    /\ pc[f] = "host_limit"
    /\ LET h == ReqHost(formattedURL[f]) IN
         IF HostLimiter(h) = 0
           THEN UNCHANGED hostSem
           ELSE /\ HostLimiter(h) - hostSem[h] >= 1
                /\ hostSem' = [hostSem EXCEPT ![h] = @ + 1]
    /\ pc' = [pc EXCEPT ![f] = "do"]
    /\ held' = [held EXCEPT ![f] =
                  IF HostLimiter(ReqHost(formattedURL[f])) = 0 THEN @
                  ELSE @ \cup {"hostLimit"}]
    /\ UNCHANGED <<semSize, sem, formattedURL, sent, deadline, ret, nonHttpVars>>

\* lines 131-139: context.WithTimeout and client.Do sending the request
Get_Do(f) ==
    /\ pc[f] = "do"
    /\ sent' = [sent EXCEPT ![f] = TRUE]
    /\ pc' = [pc EXCEPT ![f] = "in_flight"]
    /\ UNCHANGED <<semSize, held, sem, hostSem, formattedURL, deadline, ret, nonHttpVars>>

\* a return past line 129 that runs no deferred hostLimit.Release
AfterDo_NoHostRelease(f) == "defer_sem"

\* The first deferred call to run after a return past line 129
AfterDo(f) ==
    IF HostLimiter(ReqHost(formattedURL[f])) = 0 THEN "defer_sem" ELSE "defer_host"

\* lines 139-156: the response arrives, io.ReadAll reads the body or fails
Get_Response(f) ==
    /\ pc[f] = "in_flight"
    /\ \E r \in {Ret("hdr", "bytes", "nil"), Ret("nil", "nil", "errRead")} :
        Return(f, r, AfterDo(f))
    /\ UNCHANGED <<semSize, held, sem, hostSem, formattedURL, sent, nonHttpVars>>

\* lines 139-143: client.Do fails in the transport
Get_TransportError(f) ==
    /\ pc[f] = "in_flight"
    /\ Return(f, Ret("nil", "nil", "errTransport"), AfterDo(f))
    /\ UNCHANGED <<semSize, held, sem, hostSem, formattedURL, sent, nonHttpVars>>

\* lines 135-143: reqCtx, created after the acquires, expires: client.Do
\* returns context.DeadlineExceeded. That is never before the configured
\* timeout has passed since the call.
Get_Timeout(f) ==
    /\ pc[f] = "in_flight"
    /\ deadline[f] = "elapsed"
    /\ Return(f, Ret("nil", "nil", "errDeadline"), AfterDo(f))
    /\ UNCHANGED <<semSize, held, sem, hostSem, formattedURL, sent, nonHttpVars>>

\* line 128: the deferred hostLimit.Release(1), after the deferred cancel
Get_ReleaseHost(f) ==
    /\ pc[f] = "defer_host"
    /\ hostSem' = [hostSem EXCEPT ![ReqHost(formattedURL[f])] = @ - 1]
    /\ pc' = [pc EXCEPT ![f] = "defer_sem"]
    /\ held' = [held EXCEPT ![f] = @ \ {"hostLimit"}]
    /\ UNCHANGED <<semSize, sem, formattedURL, sent, deadline, ret, nonHttpVars>>

\* line 86: the deferred sem.Release(1), the last deferred call; get has returned
Get_ReleaseSem(f) ==
    /\ pc[f] = "defer_sem"
    /\ sem' = sem - 1
    /\ pc' = [pc EXCEPT ![f] = "done"]
    /\ held' = [held EXCEPT ![f] = @ \ {"sem"}]
    /\ UNCHANGED <<semSize, hostSem, formattedURL, sent, deadline, ret, nonHttpVars>>

\* Time: the timeout of lines 131-134, counted from the call of get, passes
\* while get has not returned.
Get_DeadlineElapses(f) ==
    /\ pc[f] \in {"acq_sem", "new_request", "proxy", "host_limit", "do", "in_flight"}
    /\ deadline[f] = "pending"
    /\ deadline' = [deadline EXCEPT ![f] = "elapsed"]
    /\ UNCHANGED <<semSize, held, sem, hostSem, pc, formattedURL, sent, ret, nonHttpVars>>

HttpStep(f) ==
        \/ Get_AcquireSem(f)
        \/ Get_NewRequest(f)
        \/ Get_Proxy(f)
        \/ Get_HostLimit(f)
        \/ Get_Do(f)
        \/ Get_Response(f)
        \/ Get_TransportError(f)
        \/ Get_Timeout(f)
        \/ Get_ReleaseHost(f)
        \/ Get_ReleaseSem(f)
        \/ Get_DeadlineElapses(f)

HttpNext == \E f \in HttpIds : Get_Format(f) \/ HttpStep(f)

(***************************************************************************)
(* getFromPlaywright: the caller                                           *)
(***************************************************************************)
NoBRet == [body |-> "unset", err |-> "unset"]
BRet(b, e) == [body |-> b, err |-> e]

BrowserInit ==
    /\ instSize \in 0..MaxInstancePool
    /\ instSem = 0
    /\ installPlaywrightSem = 0
    /\ installedPlaywright = FALSE
    /\ cpc = [b \in BrowserIds |-> "idle"]
    /\ ctxT = [b \in BrowserIds |-> "none"]
    /\ bdeadline = [b \in BrowserIds |-> "unset"]
    /\ bret = [b \in BrowserIds |-> NoBRet]
    /\ upc = [b \in BrowserIds |-> "none"]
    /\ err = [b \in BrowserIds |-> "nil"]
    /\ innerErr = [b \in BrowserIds |-> "undeclared"]
    /\ content = [b \in BrowserIds |-> ""]
    /\ defers = [b \in BrowserIds |-> <<>>]
    /\ open = [b \in BrowserIds |-> {}]

unitVars == <<upc, err, innerErr, content, defers, open>>
installVars == <<installPlaywrightSem, installedPlaywright>>

\* getFromPlaywright is called
Pw_Call(b) ==
    /\ cpc[b] = "idle"
    /\ cpc' = [cpc EXCEPT ![b] = "acq_instance"]
    /\ bdeadline' = [bdeadline EXCEPT ![b] = "pending"]
    /\ UNCHANGED <<instSize, instSem, installVars, ctxT, bret, unitVars, nonBrowserVars>>

\* lines 26-50: instanceLimit.Acquire(ctx, 1) with the background context, the
\* deferred release, context.WithTimeout, and the goroutine is started: it
\* defers close(res) and tests cfg.Install
Pw_AcquireInstance(b) ==
    /\ cpc[b] = "acq_instance"
    /\ IF instSize = 0
         THEN UNCHANGED instSem
         ELSE /\ instSize - instSem >= 1
              /\ instSem' = instSem + 1
    /\ ctxT' = [ctxT EXCEPT ![b] = "live"]
    /\ bdeadline' = [bdeadline EXCEPT ![b] = "unset"]
    /\ cpc' = [cpc EXCEPT ![b] = "select"]
    /\ defers' = [defers EXCEPT ![b] = <<"close(res)">>]
    /\ \E install \in BOOLEAN :
        upc' = [upc EXCEPT ![b] = IF install THEN "install_acquire" ELSE "run"]
    /\ UNCHANGED <<instSize, installVars, bret, err, innerErr, content, open, nonBrowserVars>>

\* The return statement of the caller with its deferred calls: cancel, and
\* instanceLimit.Release(1) (line 32) when there is a limiter.
Pw_Return(b, r) ==
    /\ bret' = [bret EXCEPT ![b] = r]
    /\ ctxT' = [ctxT EXCEPT ![b] = IF @ = "live" THEN "canceled" ELSE @]
    /\ instSem' = IF instSize = 0 THEN instSem ELSE instSem - 1
    /\ cpc' = [cpc EXCEPT ![b] = "done"]

\* lines 205-207: res is closed, the caller returns []byte(content) and err
Pw_SelectRes(b) ==
    /\ cpc[b] = "select"
    /\ upc[b] = "closed"
    /\ Pw_Return(b, BRet(content[b], err[b]))
    /\ UNCHANGED <<instSize, installVars, bdeadline, unitVars, nonBrowserVars>>

\* lines 208-209: ctxT is done, the caller returns nil and ctxT.Err()
Pw_SelectDeadline(b) ==
    /\ cpc[b] = "select"
    /\ ctxT[b] = "expired"
    /\ Pw_Return(b, BRet("nil", "errDeadline"))
    /\ UNCHANGED <<instSize, installVars, bdeadline, unitVars, nonBrowserVars>>

\* Time: the timeout of lines 35-38, counted from the call, passes while the
\* caller waits for an instance slot.
Pw_DeadlineElapses(b) ==
    /\ cpc[b] = "acq_instance"
    /\ bdeadline[b] = "pending"
    /\ bdeadline' = [bdeadline EXCEPT ![b] = "elapsed"]
    /\ UNCHANGED <<instSize, instSem, installVars, cpc, ctxT, bret, unitVars, nonBrowserVars>>

\* Time: the deadline of ctxT (line 40) passes before the caller has returned
Pw_CtxExpires(b) ==
    /\ ctxT[b] = "live"
    /\ ctxT' = [ctxT EXCEPT ![b] = "expired"]
    /\ UNCHANGED <<instSize, instSem, installVars, cpc, bdeadline, bret, unitVars,
                   nonBrowserVars>>

(***************************************************************************)
(* getFromPlaywright: the goroutine of lines 48-203                        *)
(***************************************************************************)
callerVars == <<cpc, ctxT, bdeadline, bret>>

\* installPlaywrightSem.Acquire that takes the lock without waiting for it
Unit_InstallAcquire_NoWait(b) ==
    /\ upc[b] = "install_acquire"
    /\ installPlaywrightSem' = installPlaywrightSem + 1
    /\ err' = [err EXCEPT ![b] = "nil"]
    /\ upc' = [upc EXCEPT ![b] = "install_check"]
    /\ UNCHANGED <<instSize, instSem, installedPlaywright, callerVars, innerErr,
                   content, defers, open, nonBrowserVars>>

\* line 51: installPlaywrightSem.Acquire(ctxT, 1) takes the lock
Unit_InstallAcquire(b) ==
    /\ upc[b] = "install_acquire"
    /\ 1 - installPlaywrightSem >= 1
    /\ installPlaywrightSem' = installPlaywrightSem + 1
    /\ err' = [err EXCEPT ![b] = "nil"]
    /\ upc' = [upc EXCEPT ![b] = "install_check"]
    /\ UNCHANGED <<instSize, instSem, installedPlaywright, callerVars, innerErr,
                   content, defers, open, nonBrowserVars>>

\* lines 51-55: installPlaywrightSem.Acquire(ctxT, 1) returns ctxT.Err() once
\* ctxT is done, and the goroutine returns
Unit_InstallAcquireFail(b) ==
    /\ upc[b] = "install_acquire"
    /\ ctxT[b] = "expired"
    /\ err' = [err EXCEPT ![b] = "errDeadline"]
    /\ upc' = [upc EXCEPT ![b] = "return"]
    /\ UNCHANGED <<instSize, instSem, installVars, callerVars, innerErr, content,
                   defers, open, nonBrowserVars>>

\* lines 57-62: under the lock, installedPlaywright.Load()
Unit_InstallCheck(b) ==
    /\ upc[b] = "install_check"
    /\ IF installedPlaywright
         THEN /\ installPlaywrightSem' = installPlaywrightSem - 1
              /\ upc' = [upc EXCEPT ![b] = "run"]
         ELSE /\ UNCHANGED installPlaywrightSem
              /\ upc' = [upc EXCEPT ![b] = "installing"]
    /\ UNCHANGED <<instSize, instSem, installedPlaywright, callerVars, err,
                   innerErr, content, defers, open, nonBrowserVars>>

\* lines 64-74: playwright.Install under the lock, the flag is stored on success,
\* the deferred release of the lock; the goroutine goes on to line 77 either way
Unit_Install(b) ==
    /\ upc[b] = "installing"
    /\ \E ok \in BOOLEAN :
        IF ok
          THEN /\ installedPlaywright' = TRUE
               /\ err' = [err EXCEPT ![b] = "nil"]
          ELSE /\ UNCHANGED installedPlaywright
               /\ err' = [err EXCEPT ![b] = "errInstall"]
    /\ installPlaywrightSem' = installPlaywrightSem - 1
    /\ upc' = [upc EXCEPT ![b] = "run"]
    /\ UNCHANGED <<instSize, instSem, callerVars, innerErr, content, defers, open,
                   nonBrowserVars>>

\* A return statement of the goroutine after line 77, where pw, err := declares
\* a variable err of the goroutine's own: it holds a failed step's error. Only
\* whether it is nil is ever read.
Unit_Fail(b) ==
    /\ innerErr' = [innerErr EXCEPT ![b] = "error"]
    /\ upc' = [upc EXCEPT ![b] = "return"]

\* lines 77-89: playwright.Run and the deferred pw.Stop
Unit_Run(b) ==
    /\ upc[b] = "run"
    /\ \E ok \in BOOLEAN :
        IF ok
          THEN /\ innerErr' = [innerErr EXCEPT ![b] = "nil"]
               /\ open' = [open EXCEPT ![b] = @ \cup {"pw"}]
               /\ defers' = [defers EXCEPT ![b] = <<"pw.Stop">> \o @]
               /\ upc' = [upc EXCEPT ![b] = "launch"]
          ELSE /\ Unit_Fail(b)
               /\ UNCHANGED <<open, defers>>
    /\ UNCHANGED <<instSize, instSem, installVars, callerVars, err, content, nonBrowserVars>>

\* lines 91-144: the proxy options, the launch of the engine cfg.Browser names
\* (errNoDriver for any other name), the deferred browserInstance.Close
Unit_Launch(b) ==
    /\ upc[b] = "launch"
    /\ \E engine \in {"Chromium", "FireFox", "WebKit", "other"}, ok \in BOOLEAN :
        IF engine # "other" /\ ok
          THEN /\ open' = [open EXCEPT ![b] = @ \cup {"browser"}]
               /\ defers' = [defers EXCEPT ![b] = <<"browser.Close">> \o @]
               /\ upc' = [upc EXCEPT ![b] = "page"]
               /\ UNCHANGED innerErr
          ELSE /\ Unit_Fail(b)
               /\ UNCHANGED <<open, defers>>
    /\ UNCHANGED <<instSize, instSem, installVars, callerVars, err, content, nonBrowserVars>>

\* lines 146-203: the steps on the page, the first that fails ends the
\* goroutine: NewPage; the stealth scripts when cfg.Stealth; the deferred
\* page.Close; Goto; Evaluate of cfg.PreRunScript when set; content, err =
\* page.Content()
Unit_Page(b) ==
    /\ upc[b] = "page"
    /\ \E failed \in {"NewPage", "Stealth", "Goto", "PreRunScript", "Content", "none"} :
        /\ open' = [open EXCEPT ![b] = IF failed = "NewPage" THEN @ ELSE @ \cup {"page"}]
        /\ defers' = [defers EXCEPT ![b] =
                        IF failed \in {"NewPage", "Stealth"} THEN @
                        ELSE <<"page.Close">> \o @]
        /\ content' = [content EXCEPT ![b] = IF failed = "none" THEN "page" ELSE ""]
        /\ innerErr' = [innerErr EXCEPT ![b] = IF failed = "none" THEN "nil" ELSE "error"]
    /\ upc' = [upc EXCEPT ![b] = "return"]
    /\ UNCHANGED <<instSize, instSem, installVars, callerVars, err, nonBrowserVars>>

\* What is left open after the deferred calls ds ran, the last registered first.
\* browserInstance.Close closes the pages of the browser with it.
RECURSIVE RunDeferred(_, _)
RunDeferred(ds, o) ==
    IF ds = <<>> THEN o
    ELSE RunDeferred(Tail(ds),
            CASE Head(ds) = "page.Close" -> o \ {"page"}
              [] Head(ds) = "browser.Close" -> o \ {"browser", "page"}
              [] Head(ds) = "pw.Stop" -> o \ {"pw"}
              [] OTHER -> o)

\* lines 49, 85-89, 139-144, 168-173: the deferred calls of the goroutine run:
\* page.Close, browserInstance.Close, pw.Stop, close(res)
Unit_Return(b) ==
    /\ upc[b] = "return"
    /\ open' = [open EXCEPT ![b] = RunDeferred(defers[b], @)]
    /\ defers' = [defers EXCEPT ![b] = <<>>]
    /\ upc' = [upc EXCEPT ![b] = "closed"]
    /\ UNCHANGED <<instSize, instSem, installVars, callerVars, err, innerErr,
                   content, nonBrowserVars>>

BrowserStep(b) ==
        \/ Pw_AcquireInstance(b)
        \/ Pw_SelectRes(b)
        \/ Pw_SelectDeadline(b)
        \/ Pw_DeadlineElapses(b)
        \/ Pw_CtxExpires(b)
        \/ Unit_InstallAcquire(b)
        \/ Unit_InstallAcquireFail(b)
        \/ Unit_InstallCheck(b)
        \/ Unit_Install(b)
        \/ Unit_Run(b)
        \/ Unit_Launch(b)
        \/ Unit_Page(b)
        \/ Unit_Return(b)

BrowserNext == \E b \in BrowserIds : Pw_Call(b) \/ BrowserStep(b)

(***************************************************************************)
(* The reference registry: resolve(name) with the resolver SetReference    *)
(* installs                                                                *)
(***************************************************************************)
\* the names SetupSuite registers
RefNames == {"TokenRef", "TokenObjectRef"}
Callers == 1..NumCallers

\* what the resolver can return: a node and no error, or no node and an error
ResolverOutcomes == {[node |-> "my_token", err |-> "nil"],
                     [node |-> "other_token", err |-> "nil"],
                     [node |-> "nil", err |-> "resolveError"]}
NoOutcome == [node |-> "unset", err |-> "unset"]

RegistryInit ==
    /\ refState = [n \in RefNames |-> "Unresolved"]
    /\ refOutcome = [n \in RefNames |-> NoOutcome]
    /\ resolverCalls = [n \in RefNames |-> 0]
    /\ rpc = [c \in Callers |-> "idle"]
    /\ rname = [c \in Callers |-> "unset"]
    /\ observed = [c \in Callers |-> NoOutcome]

\* resolve(name) without the Resolving state: a caller that finds the name not
\* yet Resolved invokes the resolver itself
Resolve_Enter_NoWait(c) ==
    /\ rpc[c] = "idle"
    /\ \E n \in RefNames :
        /\ rname' = [rname EXCEPT ![c] = n]
        /\ IF refState[n] = "Resolved"
             THEN /\ observed' = [observed EXCEPT ![c] = refOutcome[n]]
                  /\ rpc' = [rpc EXCEPT ![c] = "done"]
                  /\ UNCHANGED <<refState, resolverCalls>>
             ELSE /\ refState' = [refState EXCEPT ![n] = "Resolving"]
                  /\ resolverCalls' = [resolverCalls EXCEPT ![n] = @ + 1]
                  /\ rpc' = [rpc EXCEPT ![c] = "resolver"]
                  /\ UNCHANGED observed
    /\ UNCHANGED <<refOutcome, fetchVars, exprVars, arrayVars, auxVars>>

\* resolve(name) is called: the first caller becomes the resolver, a caller that
\* finds the name Resolving waits, a caller that finds it Resolved reads it
Resolve_Enter(c) ==
    /\ rpc[c] = "idle"
    /\ \E n \in RefNames :
        /\ rname' = [rname EXCEPT ![c] = n]
        /\ CASE refState[n] = "Unresolved" ->
                  /\ refState' = [refState EXCEPT ![n] = "Resolving"]
                  /\ resolverCalls' = [resolverCalls EXCEPT ![n] = @ + 1]
                  /\ rpc' = [rpc EXCEPT ![c] = "resolver"]
                  /\ UNCHANGED observed
             [] refState[n] = "Resolving" ->
                  /\ rpc' = [rpc EXCEPT ![c] = "waiting"]
                  /\ UNCHANGED <<refState, resolverCalls, observed>>
             [] refState[n] = "Resolved" ->
                  /\ observed' = [observed EXCEPT ![c] = refOutcome[n]]
                  /\ rpc' = [rpc EXCEPT ![c] = "done"]
                  /\ UNCHANGED <<refState, resolverCalls>>
    /\ UNCHANGED <<refOutcome, fetchVars, exprVars, arrayVars, auxVars>>

\* the resolver returns: its outcome, a node or an error, is memoized
Resolve_Run(c) ==
    /\ rpc[c] = "resolver"
    /\ \E o \in ResolverOutcomes :
        /\ refOutcome' = [refOutcome EXCEPT ![rname[c]] = o]
        /\ observed' = [observed EXCEPT ![c] = o]
    /\ refState' = [refState EXCEPT ![rname[c]] = "Resolved"]
    /\ rpc' = [rpc EXCEPT ![c] = "done"]
    /\ UNCHANGED <<resolverCalls, rname, fetchVars, exprVars, arrayVars, auxVars>>

\* a waiting caller is given the memoized outcome
Resolve_Wake(c) ==
    /\ rpc[c] = "waiting"
    /\ refState[rname[c]] = "Resolved"
    /\ observed' = [observed EXCEPT ![c] = refOutcome[rname[c]]]
    /\ rpc' = [rpc EXCEPT ![c] = "done"]
    /\ UNCHANGED <<refState, refOutcome, resolverCalls, rname, fetchVars, exprVars,
                   arrayVars, auxVars>>

RegistryNext ==
    \E c \in Callers : Resolve_Enter(c) \/ Resolve_Run(c) \/ Resolve_Wake(c)

(***************************************************************************)
(* arrayField                                                              *)
(***************************************************************************)
\* The items of an array: Null(), a non-empty String, a nil Jsonable, and
\* arrays of those.
Leaf(kind) == [kind |-> kind, items |-> <<>>]
Leaves == {Leaf("null"), Leaf("string"), Leaf("nil")}
SeqsUpTo(S, n) == UNION {[1..k -> S] : k \in 0..n}
ArrayNode(items) == [kind |-> "array", items |-> items]
InnerArrays == {ArrayNode(items) : items \in SeqsUpTo(Leaves, MaxLen)}
Items == Leaves \cup InnerArrays

RECURSIVE Jsonable_IsEmpty(_)
RECURSIVE IsEmptyLoop(_, _)

\* lines 22-28: the loop of IsEmpty from item i on. A call of v.IsEmpty() on a
\* nil item panics, and the panic leaves IsEmpty.
IsEmptyLoop(vs, i) ==
    IF i > Len(vs) THEN "true"
    ELSE LET r == Jsonable_IsEmpty(vs[i]) IN
           IF r = "panic" THEN "panic"
           ELSE IF r = "false" THEN "false"
           ELSE IsEmptyLoop(vs, i + 1)

\* lines 17-29: arrayField.IsEmpty
arrayField_IsEmpty(vs) ==
    IF Len(vs) = 0 THEN "true" ELSE IsEmptyLoop(vs, 1)

\* v.IsEmpty() of an item: Null is empty, a non-null scalar is not, an array
\* answers with arrayField.IsEmpty, a nil interface value panics
Jsonable_IsEmpty(v) ==
    CASE v.kind = "null" -> "true"
      [] v.kind = "string" -> "false"
      [] v.kind = "array" -> arrayField_IsEmpty(v.items)
      [] OTHER -> "panic"

\* The values of Raw(): the nil of Null().Raw(), a string, a []interface{}
RawNil == [kind |-> "nil", items |-> <<>>]
RawString == [kind |-> "string", items |-> <<>>]
RawSlice(items) == [kind |-> "slice", items |-> items]
RawUncalled == [kind |-> "uncalled", items |-> <<>>]

RECURSIVE Jsonable_ToJson(_)
RECURSIVE ToJsonLoop(_, _, _)
RECURSIVE Jsonable_Raw(_)

\* ToJson with a comma after every item, the last included
arrayField_ToJson_TrailingComma(vs) ==
    LET RECURSIVE Loop(_, _)
        Loop(i, str) ==
            IF i > Len(vs) THEN str
            ELSE Loop(i + 1,
                      str \o (IF vs[i].kind = "nil" THEN <<"null">>
                              ELSE Jsonable_ToJson(vs[i])) \o <<",">>)
    IN Loop(1, <<"[">>) \o <<"]">>

\* lines 34-44: the loop of ToJson from item i on, str the text so far: a nil
\* item is written as Null().ToJson(), a comma follows every item but the last
ToJsonLoop(vs, i, str) ==
    IF i > Len(vs) THEN str
    ELSE LET item == IF vs[i].kind = "nil" THEN <<"null">>
                     ELSE Jsonable_ToJson(vs[i])
             sep == IF i # Len(vs) THEN <<",">> ELSE <<>>
         IN ToJsonLoop(vs, i + 1, str \o item \o sep)

\* lines 31-47: arrayField.ToJson, the text as its sequence of tokens
arrayField_ToJson(vs) == ToJsonLoop(vs, 1, <<"[">>) \o <<"]">>

\* item.ToJson() of an item that is not nil: null for Null, the quoted text for
\* a String, arrayField.ToJson for an array
Jsonable_ToJson(v) ==
    CASE v.kind = "null" -> <<"null">>
      [] v.kind = "string" -> <<"\"x\"">>
      [] OTHER -> arrayField_ToJson(v.items)

\* lines 49-61: arrayField.Raw: a nil item gives Null().Raw()
arrayField_Raw(vs) ==
    RawSlice([i \in 1..Len(vs) |->
                IF vs[i].kind = "nil" THEN RawNil ELSE Jsonable_Raw(vs[i])])

\* item.Raw() of an item that is not nil
Jsonable_Raw(v) ==
    CASE v.kind = "null" -> RawNil
      [] v.kind = "string" -> RawString
      [] OTHER -> arrayField_Raw(v.items)

\* Parsing a JSON text given as its tokens: the value read from the front of
\* toks and the tokens left, or a failure
ParseFail == [ok |-> FALSE, val |-> RawNil, rest |-> <<>>]
Parsed(v, rest) == [ok |-> TRUE, val |-> v, rest |-> rest]

RECURSIVE ParseValue(_)
RECURSIVE ParseElements(_, _)

\* the elements of an array after its opening bracket or after a comma, acc
\* the elements read so far: a value, then a comma and more, or the closing
\* bracket
ParseElements(toks, acc) ==
    LET r == ParseValue(toks) IN
      IF ~r.ok \/ r.rest = <<>> THEN ParseFail
      ELSE IF Head(r.rest) = "," THEN ParseElements(Tail(r.rest), Append(acc, r.val))
      ELSE IF Head(r.rest) = "]" THEN Parsed(RawSlice(Append(acc, r.val)), Tail(r.rest))
      ELSE ParseFail

ParseValue(toks) ==
    IF toks = <<>> THEN ParseFail
    ELSE IF Head(toks) = "null" THEN Parsed(RawNil, Tail(toks))
    ELSE IF Head(toks) = "\"x\"" THEN Parsed(RawString, Tail(toks))
    ELSE IF Head(toks) = "["
      THEN IF Tail(toks) # <<>> /\ Head(Tail(toks)) = "]"
             THEN Parsed(RawSlice(<<>>), Tail(Tail(toks)))
             ELSE ParseElements(Tail(toks), <<>>)
    ELSE ParseFail

\* the value of a whole text, RawUncalled when the text is not JSON
ParseJson(toks) ==
    LET r == ParseValue(toks) IN
      IF r.ok /\ r.rest = <<>> THEN r.val ELSE RawUncalled

ArrayInit ==
    /\ values \in SeqsUpTo(Items, MaxLen)
    /\ isEmpty = "uncalled"
    /\ toJson = <<>>
    /\ raw = RawUncalled

\* IsEmpty() is called on the array
Array_IsEmpty ==
    /\ isEmpty = "uncalled"
    /\ isEmpty' = arrayField_IsEmpty(values)
    /\ UNCHANGED <<values, toJson, raw, fetchVars, registryVars, exprVars, auxVars>>

\* ToJson() is called on the array
Array_ToJson ==
    /\ toJson = <<>>
    /\ toJson' = arrayField_ToJson(values)
    /\ UNCHANGED <<values, isEmpty, raw, fetchVars, registryVars, exprVars, auxVars>>

\* Raw() is called on the array
Array_Raw ==
    /\ raw = RawUncalled
    /\ raw' = arrayField_Raw(values)
    /\ UNCHANGED <<values, isEmpty, toJson, fetchVars, registryVars, exprVars, auxVars>>

ArrayNext == Array_IsEmpty \/ Array_ToJson \/ Array_Raw

(***************************************************************************)
(* ProcessExpression                                                       *)
(***************************************************************************)
EvalIds == 1..NumEval

\* the expressions of the model: one without a placeholder, one with a field
\* placeholder, one expr.Compile rejects, one that fails when run
Expressions == {"1 == 1", "{{{v}}} == 1", "1 ==", "fRes.x == 1"}

\* utils.Format against a scope whose field v is 7: a text without a
\* placeholder is unchanged
Format(text) == IF text = "{{{v}}} == 1" THEN "7 == 1" ELSE text

\* expr.Compile: does the text compile
Compiles(text) == text \in {"1 == 1", "7 == 1", "fRes.x == 1"}

\* expr.Run: does the program fail, and its value when it does not
RunFails(prog) == prog = "fRes.x == 1"
RunValue(prog) == prog = "1 == 1"

NoERet == [out |-> FALSE, err |-> "unset"]

\* the scopes an expression is evaluated against, and the index arguments: a
\* nil pointer or a pointer to a number
Scopes == {Leaf("null"), Leaf("string")}
NilIndex == -1
Indexes == {NilIndex} \cup 0..MaxIndex

\* a map is a function from its keys; line 14: defEnv is the map without keys
EmptyMap == [k \in {} |-> RawNil]
Put(map, key, v) ==
    [k \in DOMAIN map \cup {key} |-> IF k = key THEN v ELSE map[k]]

\* extendEnv that writes fRes and fIndex into the map it was handed instead
\* of a copy
extendEnv_NoCopy(envm, res, idx) ==
    LET kv1 == Put(envm, "fRes", Jsonable_Raw(res))
        kv2 == IF idx # NilIndex THEN Put(kv1, "fIndex", idx) ELSE kv1
    IN [env |-> kv2, kv |-> kv2]

\* lines 17-30: extendEnv: kv is a new map with the entries of env, then fRes
\* is result.Raw() and, when index is not nil, fIndex is *index. The map env
\* is only read. The value is the map env after the call and the map returned
extendEnv(envm, res, idx) ==
    LET kv0 == [k \in DOMAIN envm |-> envm[k]]
        kv1 == Put(kv0, "fRes", Jsonable_Raw(res))
        kv2 == IF idx # NilIndex THEN Put(kv1, "fIndex", idx) ELSE kv1
    IN [env |-> envm, kv |-> kv2]

ExprInit ==
    /\ epc = [e \in EvalIds |-> "idle"]
    /\ expression = [e \in EvalIds |-> "unset"]
    /\ source = [e \in EvalIds |-> "unset"]
    /\ program = [e \in EvalIds |-> "unset"]
    /\ steps = [e \in EvalIds |-> <<>>]
    /\ eret = [e \in EvalIds |-> NoERet]
    /\ defEnv = EmptyMap
    /\ env = [e \in EvalIds |-> EmptyMap]
    /\ result = [e \in EvalIds |-> Leaf("null")]
    /\ index = [e \in EvalIds |-> NilIndex]

\* line 33: ProcessExpression is called, env := extendEnv(defEnv, result, index)
Expr_ExtendEnv(e) ==
    /\ epc[e] = "idle"
    /\ \E x \in Expressions : expression' = [expression EXCEPT ![e] = x]
    /\ \E r \in Scopes, i \in Indexes :
          LET ext == extendEnv(defEnv, r, i) IN
            /\ result' = [result EXCEPT ![e] = r]
            /\ index' = [index EXCEPT ![e] = i]
            /\ defEnv' = ext.env
            /\ env' = [env EXCEPT ![e] = ext.kv]
    /\ steps' = [steps EXCEPT ![e] = Append(@, "extendEnv")]
    /\ epc' = [epc EXCEPT ![e] = "format"]
    /\ UNCHANGED <<source, program, eret, fetchVars, registryVars, arrayVars, auxVars>>

\* line 35: the first argument of expr.Compile, Format(expression, result, index)
Expr_Format(e) ==
    /\ epc[e] = "format"
    /\ source' = [source EXCEPT ![e] = Format(expression[e])]
    /\ steps' = [steps EXCEPT ![e] = Append(@, "Format")]
    /\ epc' = [epc EXCEPT ![e] = "compile"]
    /\ UNCHANGED <<expression, program, eret, envVars, fetchVars, registryVars, arrayVars, auxVars>>

\* ProcessExpression without the return of lines 36-38: the program is run
\* whatever expr.Compile returned
Expr_Compile_NoReturn(e) ==
    /\ epc[e] = "compile"
    /\ steps' = [steps EXCEPT ![e] = Append(@, "Compile")]
    /\ program' = [program EXCEPT ![e] = source[e]]
    /\ epc' = [epc EXCEPT ![e] = "run"]
    /\ UNCHANGED <<expression, source, eret, envVars, fetchVars, registryVars, arrayVars, auxVars>>

\* lines 35-38: expr.Compile; on an error ProcessExpression returns false, err
Expr_Compile(e) ==
    /\ epc[e] = "compile"
    /\ steps' = [steps EXCEPT ![e] = Append(@, "Compile")]
    /\ IF Compiles(source[e])
         THEN /\ program' = [program EXCEPT ![e] = source[e]]
              /\ epc' = [epc EXCEPT ![e] = "run"]
              /\ UNCHANGED eret
         ELSE /\ eret' = [eret EXCEPT ![e] = [out |-> FALSE, err |-> "compileError"]]
              /\ epc' = [epc EXCEPT ![e] = "done"]
              /\ UNCHANGED program
    /\ UNCHANGED <<expression, source, envVars, fetchVars, registryVars, arrayVars, auxVars>>

\* lines 40-45: expr.Run; on an error ProcessExpression returns false, err,
\* else out, nil
Expr_Run(e) ==
    /\ epc[e] = "run"
    /\ steps' = [steps EXCEPT ![e] = Append(@, "Run")]
    /\ eret' = [eret EXCEPT ![e] =
                  IF RunFails(program[e])
                    THEN [out |-> FALSE, err |-> "runError"]
                    ELSE [out |-> RunValue(program[e]), err |-> "nil"]]
    /\ epc' = [epc EXCEPT ![e] = "done"]
    /\ UNCHANGED <<expression, source, program, envVars, fetchVars, registryVars, arrayVars, auxVars>>

ExprNext ==
    \E e \in EvalIds :
        Expr_ExtendEnv(e) \/ Expr_Format(e) \/ Expr_Compile(e) \/ Expr_Run(e)

(***************************************************************************)
(* Format: the placeholders of a template                                  *)
(***************************************************************************)
\* The pieces of a template: literal text and the placeholders
\* {{{RefName=name path}}}, {{{path}}}, {{{FromEnv=name}}}, {PL} and {INDEX}
Text(t) == [kind |-> "text", name |-> t, path |-> ""]
RefLookup(n, path) == [kind |-> "ref", name |-> n, path |-> path]
FieldLookup(path) == [kind |-> "field", name |-> "", path |-> path]
EnvLookup(n) == [kind |-> "env", name |-> n, path |-> ""]
ScopePiece == [kind |-> "scope", name |-> "", path |-> ""]
IndexPiece == [kind |-> "index", name |-> "", path |-> ""]

TemplatePieces ==
    {Text("TokenRef="), Text(" "),
     RefLookup("TokenRef", ""), RefLookup("TokenObjectRef", "token"),
     RefLookup("NoRef", ""),
     FieldLookup("value"), FieldLookup("missing"),
     EnvLookup("TEST_VAL"), EnvLookup("TPL_VAL"), EnvLookup("UNSET_VAL"),
     ScopePiece, IndexPiece}

\* the template of TestFormatter
TestTemplate ==
    <<Text("TokenRef="), RefLookup("TokenRef", ""), Text(" and TokenObjectRef="),
      RefLookup("TokenObjectRef", "token"), Text(" Object="), FieldLookup("value"),
      Text(" "), ScopePiece, Text(" Env="), EnvLookup("TEST_VAL"), Text(" "),
      IndexPiece>>

\* The scope of the calls: the references SetupSuite registers, the object
\* with the field value, the environment (TPL_VAL holds the text of a
\* placeholder) and the index 8
RefText(n, path) ==
    CASE n = "TokenRef" /\ path = "" -> "my_token"
      [] n = "TokenObjectRef" /\ path = "token" -> "my_token"
      [] OTHER -> ""
FieldText(path) == IF path = "value" THEN "value kek" ELSE ""
EnvText(n) ==
    CASE n = "TEST_VAL" -> "test"
      [] n = "TPL_VAL" -> "{INDEX}"
      [] OTHER -> ""
ScopeText == "{\"value\": \"value kek\"}"
IndexText == "8"

\* Format that looks a text it wrote up again as a placeholder
Resolve_Again(piece) ==
    LET once == CASE piece.kind = "text" -> piece.name
                  [] piece.kind = "ref" -> RefText(piece.name, piece.path)
                  [] piece.kind = "field" -> FieldText(piece.path)
                  [] piece.kind = "env" -> EnvText(piece.name)
                  [] piece.kind = "scope" -> ScopeText
                  [] OTHER -> IndexText
    IN IF once = "{INDEX}" THEN IndexText ELSE once

\* the text Format writes for a piece: a literal text itself, the resolved
\* text of a placeholder, the empty text when it resolves to nothing
Resolve(piece) ==
    CASE piece.kind = "text" -> piece.name
      [] piece.kind = "ref" -> RefText(piece.name, piece.path)
      [] piece.kind = "field" -> FieldText(piece.path)
      [] piece.kind = "env" -> EnvText(piece.name)
      [] piece.kind = "scope" -> ScopeText
      [] OTHER -> IndexText

FmtInit ==
    /\ tpl \in SeqsUpTo(TemplatePieces, MaxTpl) \cup {TestTemplate}
    /\ fpos = 1
    /\ fout = <<>>

FmtOff == tpl = <<>> /\ fpos = 1 /\ fout = <<>>

\* Format goes on by one piece, left to right
Format_Piece ==
    /\ fpos <= Len(tpl)
    /\ fout' = Append(fout, Resolve(tpl[fpos]))
    /\ fpos' = fpos + 1
    /\ UNCHANGED <<tpl, fetchVars, registryVars, exprVars, arrayVars, reqVars,
                   timedVars, nestVars>>

FmtNext == Format_Piece

(***************************************************************************)
(* get: the texts of the configuration and the texts of the request        *)
(***************************************************************************)
\* A text of the configuration is a literal text or a template, one with a
\* placeholder; the user name and the password of the proxy can be empty and
\* JsonRawBody can be absent
ConfigTexts == {"literal", "template"}

Configs ==
    [Method : ConfigTexts, url : ConfigTexts, HeaderName : ConfigTexts,
     HeaderValue : ConfigTexts, Body : ConfigTexts,
     JsonRawBody : ConfigTexts \cup {"absent"},
     Proxy : {"nil"}, Server : {""}, Username : {""}, Password : {""}]
    \cup
    [Method : ConfigTexts, url : ConfigTexts, HeaderName : ConfigTexts,
     HeaderValue : ConfigTexts, Body : ConfigTexts,
     JsonRawBody : ConfigTexts \cup {"absent"},
     Proxy : {"set"}, Server : ConfigTexts, Username : ConfigTexts \cup {""},
     Password : ConfigTexts \cup {""}]

\* utils.Format of a text of the configuration: a template becomes its
\* expanded text, any other text is unchanged
FormatText(t) == IF t = "template" THEN "expanded" ELSE t

NoRequest ==
    [method |-> "unset", url |-> "unset", headerName |-> "unset",
     headerValue |-> "unset", body |-> "unset", proxyServer |-> "unset",
     proxyUser |-> "unset", proxyPassword |-> "unset"]

\* lines 69-119: the text get uses for each part of the request; "unused" for
\* a part the configuration does not set
RequestOf(c) ==
    [method |-> c.Method,
     url |-> FormatText(c.url),
     body |-> IF c.JsonRawBody # "absent" THEN FormatText(c.JsonRawBody)
              ELSE FormatText(c.Body),
     headerName |-> FormatText(c.HeaderName),
     headerValue |-> FormatText(c.HeaderValue),
     proxyServer |-> IF c.Proxy = "set" THEN FormatText(c.Server) ELSE "unused",
     proxyUser |-> IF c.Proxy = "set" /\ c.Username # ""
                   THEN FormatText(c.Username) ELSE "unused",
     proxyPassword |-> IF c.Proxy = "set" /\ c.Username # "" /\ c.Password # ""
                       THEN FormatText(c.Password) ELSE "unused"]

ReqInit ==
    /\ cfg \in Configs
    /\ req = NoRequest

ReqOff ==
    /\ cfg = [Method |-> "literal", url |-> "literal", HeaderName |-> "literal",
              HeaderValue |-> "literal", Body |-> "literal", JsonRawBody |-> "absent",
              Proxy |-> "nil", Server |-> "", Username |-> "", Password |-> ""]
    /\ req = NoRequest

\* get builds the request, its headers and the proxy of its client
Get_BuildRequest ==
    /\ req = NoRequest
    /\ req' = RequestOf(cfg)
    /\ UNCHANGED <<cfg, fetchVars, registryVars, exprVars, arrayVars, fmtVars,
                   timedVars, nestVars>>

ReqNext == Get_BuildRequest

(***************************************************************************)
(* The timeout of a fetch, with time in seconds                            *)
(***************************************************************************)
\* get without the default: the configured value is the duration
Timeout_NoDefault(cfgT) == cfgT

\* part_000 lines 131-134, part_001 lines 35-38: the duration of the timeout
\* context for a configured cfg.Timeout
Timeout(cfgT) == IF cfgT > 0 THEN cfgT ELSE timeout

TimedInit ==
    /\ tkind \in {"http", "browser"}
    /\ cfgTimeout \in 0..MaxTimeout
    /\ tdeadline = 0
    /\ clock = 0
    /\ tpc = "idle"
    /\ tret = "unset"

TimedOff ==
    /\ tkind = "http"
    /\ cfgTimeout = 0
    /\ tdeadline = 0
    /\ clock = 0
    /\ tpc = "idle"
    /\ tret = "unset"

restOfTimed == <<fetchVars, registryVars, exprVars, arrayVars, fmtVars, reqVars,
                 nestVars>>

\* context.WithTimeout(ctx, tt), then client.Do is called (get) or the
\* goroutine is started and the caller waits in select (getFromPlaywright)
Timed_WithTimeout ==
    /\ tpc = "idle"
    /\ tdeadline' = Timeout(cfgTimeout)
    /\ clock' = 0
    /\ tpc' = "running"
    /\ UNCHANGED <<tkind, cfgTimeout, tret, restOfTimed>>

\* a second passes while the request or the browser sequence runs
Timed_Tick ==
    /\ tpc = "running"
    /\ clock < tdeadline
    /\ clock' = clock + 1
    /\ UNCHANGED <<tkind, cfgTimeout, tdeadline, tpc, tret, restOfTimed>>

\* the request or the browser sequence ends, the context not yet done (or done
\* at this very instant): client.Do returns the response, res is closed
Timed_Finish ==
    /\ tpc = "running"
    /\ clock <= tdeadline
    /\ \E outcome \in {"document", "error"} : tret' = outcome
    /\ tpc' = "returned"
    /\ UNCHANGED <<tkind, cfgTimeout, tdeadline, clock, restOfTimed>>

\* the context is done: client.Do returns its error (part_000 lines 139-143),
\* the select takes <-ctxT.Done() and returns ctxT.Err() (part_001 lines
\* 208-209)
Timed_Deadline ==
    /\ tpc = "running"
    /\ clock = tdeadline
    /\ tret' = "errDeadline"
    /\ tpc' = "returned"
    /\ UNCHANGED <<tkind, cfgTimeout, tdeadline, clock, restOfTimed>>

TimedNext == Timed_WithTimeout \/ Timed_Tick \/ Timed_Finish \/ Timed_Deadline

(***************************************************************************)
(* Specifications                                                          *)
(***************************************************************************)
(***************************************************************************)
(* apiConnector.get with a reference lookup in its templates               *)
(***************************************************************************)
NestIds == 1..NumNested

\* the template of a descriptor that holds the lookup of the reference: the
\* URL or body, a header, the proxy, or none
Lookups == {"none", "url", "header", "proxy"}

NestInit ==
    /\ nsemSize \in 1..MaxPool
    /\ nsem = 0
    /\ nref = "unresolved"
    /\ nlookup = [f \in NestIds |-> "none"]
    /\ npc = [f \in NestIds |-> "idle"]
    /\ nrpc = [f \in NestIds |-> "none"]

NestOff ==
    /\ nsemSize = 1
    /\ nsem = 0
    /\ nref = "unresolved"
    /\ nlookup = [f \in NestIds |-> "none"]
    /\ npc = [f \in NestIds |-> "idle"]
    /\ nrpc = [f \in NestIds |-> "none"]

nestRest == <<fetchVars, registryVars, exprVars, arrayVars, fmtVars, reqVars,
              timedVars>>

\* line 68: get is called for a descriptor
Nest_Call(f) ==
    /\ npc[f] = "idle"
    /\ \E l \in Lookups : nlookup' = [nlookup EXCEPT ![f] = l]
    /\ npc' = [npc EXCEPT ![f] = "url"]
    /\ UNCHANGED <<nsemSize, nsem, nref, nrpc, nestRest>>

\* utils.Format of the template at position at of get: when the template holds
\* the lookup, the first call to ask for the unresolved reference runs its
\* resolver, a call that finds it resolving waits, and Format returns once the
\* reference is resolved
FormatTemplate(f, at, next) ==
    /\ npc[f] = at
    /\ nrpc[f] \in {"none", "done"}
    /\ IF nlookup[f] = at /\ nref = "unresolved"
         THEN /\ nref' = "resolving"
              /\ nrpc' = [nrpc EXCEPT ![f] = "acquire"]
              /\ UNCHANGED npc
         ELSE /\ nlookup[f] = at => nref = "resolved"
              /\ npc' = [npc EXCEPT ![f] = next]
              /\ UNCHANGED <<nref, nrpc>>
    /\ UNCHANGED <<nsemSize, nsem, nlookup, nestRest>>

\* lines 69-74: the body and the URL are Formatted
Nest_FormatURL(f) == FormatTemplate(f, "url", "acquire")

\* line 80: sem.Acquire(ctx, 1) with the background context
Nest_Acquire(f) ==
    /\ npc[f] = "acquire"
    /\ nsem < nsemSize
    /\ nsem' = nsem + 1
    /\ npc' = [npc EXCEPT ![f] = "header"]
    /\ UNCHANGED <<nsemSize, nref, nlookup, nrpc, nestRest>>

\* lines 95-97: the headers are Formatted
Nest_FormatHeaders(f) == FormatTemplate(f, "header", "proxy")

\* lines 104-117: the proxy server, user and password are Formatted
Nest_FormatProxy(f) == FormatTemplate(f, "proxy", "do")

\* lines 139-156: client.Do; the backend answers
Nest_Do(f) ==
    /\ npc[f] = "do"
    /\ npc' = [npc EXCEPT ![f] = "release"]
    /\ UNCHANGED <<nsemSize, nsem, nref, nlookup, nrpc, nestRest>>

\* line 86: the deferred sem.Release(1), and get returns
Nest_Release(f) ==
    /\ npc[f] = "release"
    /\ nsem' = nsem - 1
    /\ npc' = [npc EXCEPT ![f] = "done"]
    /\ UNCHANGED <<nsemSize, nref, nlookup, nrpc, nestRest>>

\* the resolver of the reference calls get for the reference's own descriptor,
\* which holds no lookup: line 80, sem.Acquire(ctx, 1)
Resolver_Acquire(f) ==
    /\ nrpc[f] = "acquire"
    /\ nsem < nsemSize
    /\ nsem' = nsem + 1
    /\ nrpc' = [nrpc EXCEPT ![f] = "do"]
    /\ UNCHANGED <<nsemSize, nref, nlookup, npc, nestRest>>

\* lines 139-156 in the resolver's get
Resolver_Do(f) ==
    /\ nrpc[f] = "do"
    /\ nrpc' = [nrpc EXCEPT ![f] = "release"]
    /\ UNCHANGED <<nsemSize, nsem, nref, nlookup, npc, nestRest>>

\* line 86 in the resolver's get; the resolver returns and the reference is
\* resolved
Resolver_Release(f) ==
    /\ nrpc[f] = "release"
    /\ nsem' = nsem - 1
    /\ nref' = "resolved"
    /\ nrpc' = [nrpc EXCEPT ![f] = "done"]
    /\ UNCHANGED <<nsemSize, nlookup, npc, nestRest>>

\* the steps of a call of get after the call itself
NestRun(f) ==
    \/ Nest_FormatURL(f) \/ Nest_Acquire(f) \/ Nest_FormatHeaders(f)
    \/ Nest_FormatProxy(f) \/ Nest_Do(f) \/ Nest_Release(f)
    \/ Resolver_Acquire(f) \/ Resolver_Do(f) \/ Resolver_Release(f)

NestNext == \E f \in NestIds : Nest_Call(f) \/ NestRun(f)

HttpIdle == \A f \in HttpIds : pc[f] = "idle"
BrowserIdle == \A b \in BrowserIds : cpc[b] = "idle"

\* the parts of the state a specification leaves alone
RegistryOff == RegistryInit
ExprOff == ExprInit
ArrayOff == values = <<>> /\ isEmpty = "uncalled" /\ toJson = <<>> /\ raw = RawUncalled
AuxOff == FmtOff /\ ReqOff /\ TimedOff /\ NestOff

\* calls of get alone
InitHttp == HttpInit /\ BrowserInit /\ instSize = 0
              /\ RegistryOff /\ ExprOff /\ ArrayOff /\ AuxOff
SpecHttp == InitHttp /\ [][HttpNext]_vars

\* calls of getFromPlaywright alone
InitBrowser == HttpInit /\ BrowserInit /\ semSize = defaultConcurrentWorker
                 /\ RegistryOff /\ ExprOff /\ ArrayOff /\ AuxOff
SpecBrowser == InitBrowser /\ [][BrowserNext]_vars

\* fetches of both kinds with the largest pools of the model; the two kinds
\* share no pool, so a run has fetches of one kind
Init == HttpInit /\ BrowserInit
          /\ semSize = DefaultConcurrentRequest(MaxWorkerEnv)
          /\ instSize = MaxInstancePool
          /\ RegistryOff /\ ExprOff /\ ArrayOff /\ AuxOff
Next ==
    \/ \E f \in HttpIds : (BrowserIdle /\ Get_Format(f)) \/ HttpStep(f)
    \/ \E b \in BrowserIds : (HttpIdle /\ Pw_Call(b)) \/ BrowserStep(b)
Spec == Init /\ [][Next]_vars

FetchOff == HttpInit /\ BrowserInit /\ semSize = defaultConcurrentWorker
              /\ instSize = 0

\* calls of resolve
InitRegistry == FetchOff /\ RegistryInit /\ ExprOff /\ ArrayOff /\ AuxOff
SpecRegistry == InitRegistry /\ [][RegistryNext]_vars

\* calls of ProcessExpression
InitExpr == FetchOff /\ RegistryOff /\ ExprInit /\ ArrayOff /\ AuxOff
SpecExpr == InitExpr /\ [][ExprNext]_vars

\* IsEmpty on the arrays of the model
InitArray == FetchOff /\ RegistryOff /\ ExprOff /\ ArrayInit /\ AuxOff
SpecArray == InitArray /\ [][ArrayNext]_vars

\* the request get builds for a configuration
InitReq == FetchOff /\ RegistryOff /\ ExprOff /\ ArrayOff /\ FmtOff /\ ReqInit
             /\ TimedOff /\ NestOff
SpecReq == InitReq /\ [][ReqNext]_vars

\* calls of Format
InitFmt == FetchOff /\ RegistryOff /\ ExprOff /\ ArrayOff /\ FmtInit /\ ReqOff
             /\ TimedOff /\ NestOff
\* a fetch and its timeout
InitTimed == FetchOff /\ RegistryOff /\ ExprOff /\ ArrayOff /\ FmtOff /\ ReqOff
               /\ TimedInit /\ NestOff
SpecTimed == InitTimed /\ [][TimedNext]_vars
SpecFmt == InitFmt /\ [][FmtNext]_vars

\* get with reference lookups: every started step of a call is taken when it
\* can be taken again and again; sem hands its slots out in the order asked
InitNested == FetchOff /\ RegistryOff /\ ExprOff /\ ArrayOff /\ FmtOff /\ ReqOff
              /\ TimedOff /\ NestInit
SpecNested ==
    InitNested /\ [][NestNext]_vars /\ \A f \in NestIds : SF_vars(NestRun(f))

(***************************************************************************)
(* The properties                                                          *)
(***************************************************************************)
\* the fetches between sem.Acquire and the deferred sem.Release
SemHolders ==
    {f \in HttpIds : pc[f] \in {"new_request", "proxy", "host_limit", "do",
                                "in_flight", "defer_host", "defer_sem"}}

\* the fetches between hostLimit.Acquire and the deferred hostLimit.Release of
\* the limiter of host h
HostHolders(h) ==
    {f \in HttpIds : pc[f] \in {"do", "in_flight", "defer_host"}
                       /\ ReqHost(formattedURL[f]) = h}

\* the browser fetches between instanceLimit.Acquire and its deferred release
InstHolders == {b \in BrowserIds : cpc[b] = "select"}

\* the goroutines between installPlaywrightSem.Acquire and its release
InstallHolders == {b \in BrowserIds : upc[b] \in {"install_check", "installing"}}

\* the goroutines of browser fetches that have started and not ended
RunningUnits == {b \in BrowserIds : upc[b] \notin {"none", "closed"}}

\* C1: the global pool has the configured size, 1000 when the configuration
\* gives none or a non-positive one; the fetches holding a slot of it are never
\* more than its size, the pool counts exactly them, and a fetch that finds the
\* pool full cannot take a slot
C1_GlobalPoolBound ==
    /\ semSize \in {defaultConcurrentWorker} \cup (1..MaxWorkerEnv)
    /\ Cardinality(SemHolders) <= semSize
    /\ sem = Cardinality(SemHolders)
    /\ \A f \in HttpIds :
         (pc[f] = "acq_sem" /\ sem = semSize) => ~ENABLED Get_AcquireSem(f)

\* the pool is full and a further fetch waits at sem.Acquire
C1_Witness ==
    \E f, g \in HttpIds :
        /\ pc[f] = "in_flight"
        /\ pc[g] = "acq_sem"
        /\ sem = semSize

C3_BlockedAcquireEndsAtDeadline ==
    /\ \A f \in HttpIds :
         (/\ deadline[f] = "elapsed"
          /\ \/ pc[f] = "acq_sem" /\ sem = semSize
             \/ /\ pc[f] = "host_limit"
                /\ HostLimiter(ReqHost(formattedURL[f])) > 0
                /\ hostSem[ReqHost(formattedURL[f])]
                     = HostLimiter(ReqHost(formattedURL[f])))
         => ENABLED (HttpStep(f) /\ ret'[f].err = "errDeadline")
    /\ \A b \in BrowserIds :
         (/\ bdeadline[b] = "elapsed"
          /\ cpc[b] = "acq_instance"
          /\ instSize > 0
          /\ instSem = instSize)
         => ENABLED (BrowserStep(b) /\ bret'[b].err = "errDeadline")

\* no fetch of either kind is in progress, the goroutines of the browser
\* fetches included
NoFetchInProgress ==
    /\ \A f \in HttpIds : pc[f] \in {"idle", "done"}
    /\ \A b \in BrowserIds : cpc[b] \in {"idle", "done"} /\ upc[b] \in {"none", "closed"}

\* C4: every pool counts exactly the fetches between its acquire and its
\* release, so no exit path keeps a slot or releases one twice; when no fetch
\* is in progress every pool has all its slots
C4_SlotsReleasedOnEveryExit ==
    /\ sem = Cardinality(SemHolders)
    /\ \A h \in Hosts :
         hostSem[h] = IF HostLimiter(h) = 0 THEN 0 ELSE Cardinality(HostHolders(h))
    /\ instSem = IF instSize = 0 THEN 0 ELSE Cardinality(InstHolders)
    /\ installPlaywrightSem = Cardinality(InstallHolders)
    /\ NoFetchInProgress =>
         /\ sem = 0
         /\ \A h \in Hosts : hostSem[h] = 0
         /\ instSem = 0
         /\ installPlaywrightSem = 0

\* every fetch has returned, one by the deadline of a request to a limited host
\* and one by an error before the request was sent
C4_Witness ==
    /\ NoFetchInProgress
    /\ \E f, g \in HttpIds :
        /\ pc[f] = "done" /\ ret[f].err = "errDeadline"
        /\ HostLimiter(ReqHost(formattedURL[f])) > 0
        /\ pc[g] = "done" /\ ret[g].err = "errNewRequest"

\* C5: a fetch whose Formatted URL is empty returns the empty-URL error in the
\* step that formats it: it takes no slot of any pool and sends nothing
C5_EmptyURLTouchesNoPool ==
    [][\A f \in HttpIds :
         (pc[f] = "idle" /\ pc'[f] # "idle" /\ formattedURL'[f] = "") =>
             /\ pc'[f] = "done"
             /\ ret'[f] = Ret("nil", "nil", "errEmpty")
             /\ sent'[f] = FALSE
             /\ sem' = sem
             /\ hostSem' = hostSem]_vars

\* a fetch with an empty URL has returned its error while another fetch holds
\* the only slot of the global pool
C5_Witness ==
    \E f, g \in HttpIds :
        /\ formattedURL[f] = "" /\ pc[f] = "done" /\ ret[f].err = "errEmpty"
        /\ pc[g] = "in_flight" /\ sem = semSize

\* C6: with an instance limiter, the goroutines of browser fetches that are
\* running are never more than the capacity of the instance pool, and a
\* running goroutine's fetch holds its slot
C6_RunningUnitsWithinInstancePool ==
    instSize > 0 =>
        /\ Cardinality(RunningUnits) <= instSize
        /\ RunningUnits \subseteq InstHolders

\* the error the goroutine of browser fetch b ended with: that of its failed
\* step, else what the install step left
UnitErr(b) == IF innerErr[b] = "error" THEN "error" ELSE err[b]

\* C7: a browser fetch that has returned either returned nil and the deadline
\* error, its deadline having passed, or returned what its goroutine ended
\* with: the content, and an error exactly when the goroutine failed
C7_CallerReturnsUnitOutcome ==
    \A b \in BrowserIds :
        cpc[b] = "done" =>
            \/ bret[b] = BRet("nil", "errDeadline") /\ ctxT[b] = "expired"
            \/ /\ upc[b] = "closed"
               /\ bret[b].body = content[b]
               /\ (bret[b].err = "nil") <=> (UnitErr(b) = "nil")

\* C8: the resolver of a name is invoked at most once, a name is Unresolved
\* exactly while it was never invoked, and every caller that resolve has
\* answered observed the memoized outcome of its name, value or error
C8_ResolverSingleFlight ==
    /\ \A n \in RefNames :
        /\ resolverCalls[n] <= 1
        /\ (refState[n] = "Unresolved") <=> (resolverCalls[n] = 0)
        /\ (refState[n] = "Resolved") <=> (refOutcome[n] \in ResolverOutcomes)
    /\ \A c \in Callers :
        rpc[c] = "done" => observed[c] = refOutcome[rname[c]]
    /\ \A c, d \in Callers :
        (rpc[c] = "done" /\ rpc[d] = "done" /\ rname[c] = rname[d])
            => observed[c] = observed[d]

\* the resolver of a name failed: two callers observed its error and a third,
\* which called while the name was Resolving, still waits
C8_Witness ==
    \E c, d, e \in Callers :
        /\ c # d
        /\ rname[c] = rname[d] /\ rname[d] = rname[e]
        /\ rpc[c] = "done" /\ rpc[d] = "done" /\ rpc[e] = "waiting"
        /\ observed[c].err = "resolveError"
        /\ observed[d].err = "resolveError"

\* the order of the steps of ProcessExpression
StepOrder == <<"extendEnv", "Format", "Compile", "Run">>

\* C9: the steps of ProcessExpression happen in the order Format, compile,
\* run; when the Formatted text does not compile nothing is run and the call
\* returns false with the error; when the run fails it returns false with the
\* error; otherwise it returns the value and no error
C9_FormatCompileRun ==
    \A e \in EvalIds :
        /\ Len(steps[e]) <= Len(StepOrder)
        /\ steps[e] = SubSeq(StepOrder, 1, Len(steps[e]))
        /\ epc[e] = "done" =>
             LET text == Format(expression[e]) IN
               IF ~Compiles(text)
                 THEN /\ Len(steps[e]) = 3
                      /\ eret[e] = [out |-> FALSE, err |-> "compileError"]
               ELSE IF RunFails(text)
                 THEN /\ Len(steps[e]) = 4
                      /\ eret[e] = [out |-> FALSE, err |-> "runError"]
               ELSE /\ Len(steps[e]) = 4
                    /\ eret[e] = [out |-> RunValue(text), err |-> "nil"]

\* an expression with a placeholder was Formatted, compiled and run, and one
\* that does not compile returned its error after three steps
C9_Witness ==
    \E e, g \in EvalIds :
        /\ expression[e] = "{{{v}}} == 1" /\ epc[e] = "done" /\ eret[e].err = "nil"
        /\ epc[g] = "done" /\ eret[g].err = "compileError"
        /\ Len(steps[g]) = 3

\* C10: IsEmpty of an array is true exactly when IsEmpty of every item is
\* true: true with no item, and false as soon as one item is a non-null scalar
\* or a non-empty container
C10_IsEmptyIffEveryItemEmpty ==
    isEmpty # "uncalled" =>
        /\ (isEmpty = "true") <=>
             (\A i \in 1..Len(values) : Jsonable_IsEmpty(values[i]) = "true")
        /\ Len(values) = 0 => isEmpty = "true"
        /\ (\E i \in 1..Len(values) :
               \/ values[i].kind = "string"
               \/ values[i].kind = "array"
                    /\ arrayField_IsEmpty(values[i].items) = "false")
             => isEmpty = "false"

\* the commas of a text that are not inside an inner array
RECURSIVE TopCommas(_, _)
TopCommas(toks, depth) ==
    IF toks = <<>> THEN 0
    ELSE IF Head(toks) = "[" THEN TopCommas(Tail(toks), depth + 1)
    ELSE IF Head(toks) = "]" THEN TopCommas(Tail(toks), depth - 1)
    ELSE (IF Head(toks) = "," /\ depth = 1 THEN 1 ELSE 0) + TopCommas(Tail(toks), depth)

\* C11: the text ToJson() returns for an array parses as JSON to a value equal
\* to what Raw() returns: as many elements as the array has items, in their
\* order, one comma between two elements and none after the last, and a nil
\* item is null in the text and nil in Raw()
C11_ToJsonParsesToRaw ==
    (toJson # <<>> /\ raw # RawUncalled) =>
        /\ ParseJson(toJson) = raw
        /\ raw.kind = "slice"
        /\ Len(raw.items) = Len(values)
        /\ TopCommas(toJson, 0) = (IF Len(values) = 0 THEN 0 ELSE Len(values) - 1)
        /\ toJson[Len(toJson) - 1] # ","
        /\ \A i \in 1..Len(values) :
             values[i].kind = "nil" =>
                 /\ raw.items[i] = RawNil
                 /\ ParseJson(toJson).items[i] = RawNil

\* ToJson() and Raw() have answered for an array of a nil item and an inner
\* array that has items itself
C11_Witness ==
    /\ toJson # <<>>
    /\ raw # RawUncalled
    /\ Len(values) = MaxLen
    /\ values[1].kind = "nil"
    /\ values[MaxLen].kind = "array"
    /\ Len(values[MaxLen].items) = MaxLen

C13_EveryFieldExpanded ==
    req # NoRequest =>
        /\ req.method # "template"
        /\ req.url # "template"
        /\ req.headerName # "template"
        /\ req.headerValue # "template"
        /\ req.body # "template"
        /\ req.proxyServer # "template"
        /\ req.proxyUser # "template"
        /\ req.proxyPassword # "template"

\* C14: the timeout of a fetch is its configured number of seconds when that
\* is more than 0 and 60 seconds otherwise; the request or the browser
\* sequence never runs past it, a fetch returns a document or an error of its
\* own only if its work ended by then, and a fetch whose work is still running
\* when the time is up returns the deadline error
C14_DeadlineIsTimeoutOrDefault ==
    tpc # "idle" =>
        /\ cfgTimeout > 0 => tdeadline = cfgTimeout
        /\ cfgTimeout <= 0 => tdeadline = 60
        /\ clock <= tdeadline
        /\ (tpc = "running" /\ clock = tdeadline) => ENABLED Timed_Deadline
        /\ (tpc = "running" /\ clock < tdeadline) => ~ENABLED Timed_Deadline
        /\ tret = "errDeadline" => clock = tdeadline

\* a fetch without a configured timeout has returned the deadline error after
\* the 60 seconds of the default
C14_Witness ==
    /\ cfgTimeout = 0
    /\ tpc = "returned"
    /\ tret = "errDeadline"
    /\ clock = timeout

\* C15: a call of get holds a host slot only while it holds a slot of the
\* global pool, takes the host slot when it already holds the global one,
\* sends its request only while it holds the global slot and, when its host
\* has a limiter, the host slot, and holds nothing once it has returned,
\* whatever the way it returned
C15_GlobalThenHost ==
    /\ [](\A f \in HttpIds :
            /\ "hostLimit" \in held[f] => "sem" \in held[f]
            /\ pc[f] = "in_flight" =>
                 /\ "sem" \in held[f]
                 /\ HostLimiter(ReqHost(formattedURL[f])) > 0 => "hostLimit" \in held[f]
            /\ pc[f] = "done" => held[f] = {})
    /\ [][\A f \in HttpIds :
            /\ ("hostLimit" \in held'[f] /\ "hostLimit" \notin held[f])
                 => "sem" \in held[f]
            /\ (sent'[f] /\ ~sent[f]) =>
                 /\ "sem" \in held[f]
                 /\ HostLimiter(ReqHost(formattedURL[f])) > 0 => "hostLimit" \in held[f]
            /\ ("sem" \in held[f] /\ "sem" \notin held'[f])
                 => "hostLimit" \notin held[f]]_vars

\* a request to a limited host is in flight with both slots held while a
\* second fetch to that host holds its global slot and waits for the host slot
C15_Witness ==
    \E f, g \in HttpIds :
        /\ pc[f] = "in_flight" /\ held[f] = {"sem", "hostLimit"}
        /\ pc[g] = "host_limit" /\ held[g] = {"sem"}
        /\ ReqHost(formattedURL[f]) = ReqHost(formattedURL[g])

\* C16: the goroutine of a browser fetch that starts when the installed flag
\* is set does not go to installPlaywrightSem.Acquire, whether or not the fetch
\* asks for the installation
C16_InstalledSkipsLock ==
    [][\A b \in BrowserIds :
         (upc[b] = "none" /\ upc'[b] # "none" /\ installedPlaywright)
             => upc'[b] # "install_acquire"]_vars

\* the goroutines that are in playwright.Install
Installing == {b \in BrowserIds : upc[b] = "installing"}

\* C17: at most one goroutine is in playwright.Install at a time and none
\* while the installed flag is set; the flag, once set, stays set; a goroutine
\* enters playwright.Install only while the flag is unset; an installation that
\* fails leaves the flag unset, and a goroutine that then finds it unset under
\* the lock installs again
C17_OneInstallAtATime ==
    /\ [](/\ Cardinality(Installing) <= 1
          /\ installedPlaywright => Installing = {}
          /\ \A b \in BrowserIds :
               (upc[b] = "install_check" /\ ~installedPlaywright)
                   => ENABLED (Unit_InstallCheck(b) /\ upc'[b] = "installing"))
    /\ [][/\ installedPlaywright => installedPlaywright'
          /\ \A b \in BrowserIds :
               /\ (upc[b] # "installing" /\ upc'[b] = "installing")
                    => ~installedPlaywright
               /\ (upc[b] = "installing" /\ upc'[b] # "installing"
                     /\ err'[b] = "errInstall")
                    => ~installedPlaywright']_vars

\* the installation of one fetch has failed and another fetch is installing
\* again
C17_Witness ==
    \E b, c \in BrowserIds :
        /\ err[b] = "errInstall"
        /\ upc[b] # "installing"
        /\ upc[c] = "installing"
        /\ ~installedPlaywright

\* C18: a browser fetch whose goroutine failed at a step from playwright.Run
\* on and that returned because res was closed returned an error, and no
\* browser fetch returns no error with a content other than that of the page
C18_BrowserFailureIsReturned ==
    \A b \in BrowserIds :
        cpc[b] = "done" =>
            /\ (innerErr[b] = "error" /\ bret[b].body # "nil") => bret[b].err # "nil"
            /\ bret[b].err = "nil" => bret[b].body = "page"

\* C19: a call of get that has returned without sending its request returned
\* an error
C19_UnsentReturnsError ==
    \A f \in HttpIds :
        (ret[f] # NoRet /\ ~sent[f]) => ret[f].err # "nil"

\* C20: after playwright.Install failed in the goroutine of a browser fetch,
\* playwright.Run is not called, nothing is opened, no content is read, and a
\* caller woken by res returns the installation error with no content
C20_InstallFailureStops ==
    \A b \in BrowserIds :
        err[b] = "errInstall" =>
            /\ upc[b] \in {"run", "return", "closed"}
            /\ innerErr[b] = "undeclared"
            /\ open[b] = {}
            /\ content[b] = ""
            /\ (cpc[b] = "done" /\ bret[b].body # "nil")
                 => bret[b] = BRet("", "errInstall")

\* an array with every nil item, at any depth, replaced by Null()
RECURSIVE NilAsNull(_)
NilAsNull(vs) ==
    [i \in 1..Len(vs) |->
        IF vs[i].kind = "nil" THEN Leaf("null")
        ELSE IF vs[i].kind = "array" THEN ArrayNode(NilAsNull(vs[i].items))
        ELSE vs[i]]

\* some item of the array, at any depth, is nil
RECURSIVE HasNil(_)
HasNil(vs) ==
    \E i \in 1..Len(vs) :
        \/ vs[i].kind = "nil"
        \/ vs[i].kind = "array" /\ HasNil(vs[i].items)

\* C22: the three operations of an array treat a nil item as Null(): IsEmpty()
\* returns, with the answer it gives for the array whose nil items are Null(),
\* as ToJson() gives the text and Raw() the value of that array
C22_NilItemIsNullEverywhere ==
    HasNil(values) =>
        /\ isEmpty # "uncalled" =>
             /\ isEmpty # "panic"
             /\ isEmpty = arrayField_IsEmpty(NilAsNull(values))
        /\ toJson # <<>> => toJson = arrayField_ToJson(NilAsNull(values))
        /\ raw # RawUncalled => raw = arrayField_Raw(NilAsNull(values))

\* C23: ProcessExpression never changes the shared map defEnv, which stays as
\* it was declared: every evaluation has a map of its own that holds the
\* entries of defEnv, fRes as the Raw() of its own result, and fIndex, with its
\* own index, exactly when it was handed an index, whatever the other
\* evaluations did before or in between
C23_DefEnvUnchanged ==
    /\ defEnv = EmptyMap
    /\ \A e \in EvalIds :
         epc[e] # "idle" =>
           /\ DOMAIN env[e] =
                DOMAIN defEnv \cup {"fRes"}
                  \cup (IF index[e] # NilIndex THEN {"fIndex"} ELSE {})
           /\ env[e]["fRes"] = Jsonable_Raw(result[e])
           /\ index[e] # NilIndex => env[e]["fIndex"] = index[e]

\* an evaluation with an index against a string scope and an evaluation
\* without an index against a null scope have both returned
C23_Witness ==
    \E e, g \in EvalIds :
        /\ epc[e] = "done" /\ index[e] = MaxIndex /\ result[e] = Leaf("string")
        /\ epc[g] = "done" /\ index[g] = NilIndex /\ result[g] = Leaf("null")
        /\ "fIndex" \in DOMAIN env[e]
        /\ "fIndex" \notin DOMAIN env[g]

\* C21: with a backend that always answers and a reference whose own
\* descriptor looks nothing up, every call of get that was made returns in the
\* end, for every capacity of sem and every number of concurrent calls, also
\* when a header or proxy template of the call looks up the unresolved
\* reference that is fetched by get itself
C21_EveryFetchReturns ==
    \A f \in NestIds : (npc[f] # "idle") ~> (npc[f] = "done")

=============================================================================
